---- MODULE Spec2Model ----
(***************************************************************************)
(* Incremental collection and aggregation pipeline of go-stock-collector:  *)
(* the minute-bar store (InsertMinuteData), the daily aggregator           *)
(* (UpdateDailySummary), the batch fetcher with its sample validator       *)
(* (GetMinuteData) and the orchestrator (CollectHistoricalData).           *)
(*                                                                         *)
(* Units.  An instant is a whole number of hours since Sunday 00:00 UTC of *)
(* a reference week; a calendar date is a day number in a given UTC offset *)
(* (day 0 = that Sunday), so day % 7 is Go's time.Weekday (0 = Sunday,     *)
(* 6 = Saturday).  A price is a whole number of mills (1/1000 dollar), so  *)
(* that rounding to 2 decimal places is not the identity.  float64         *)
(* arithmetic is modelled by exact arithmetic on these integers.           *)
(* America/New_York is modelled at its standard offset (EST, UTC-5).       *)
(***************************************************************************)
EXTENDS Integers, Sequences, FiniteSets, TLC

VARIABLES
    localOffset,   \* UTC offset of the process-local timezone (time.Local)
    now,           \* time.Now()
    minuteData,    \* table stock_minute_data: a set of rows
    dailySummary,  \* table stock_daily_summary: a set of rows
    lastWrite,     \* history: (symbol, timestamp) -> bar of the latest committed write
    last,          \* record of the latest call: its inputs and its outcome
    sample,        \* the raw upstream sample under validation
    verdict,       \* the validator's verdict on sample
    watched,       \* table watched_stocks: a set of rows
    sweep,         \* the scheduler's goroutine running updateAllWatchedStocks
    sync,          \* the goroutine serving POST /api/watchlist/:symbol/sync
    fetch          \* a call of GetMinuteData, one loop step at a time

vars == <<localOffset, now, minuteData, dailySummary, lastWrite, last, sample, verdict,
          watched, sweep, sync, fetch>>

\* The state of the service around the pipeline.
sysVars == <<watched, sweep, sync, fetch>>

----------------------------------------------------------------------------
(* Bounds of the model *)

\* Longest bar batch handed to InsertMinuteData / UpdateDailySummary directly.
MaxBars == 3

----------------------------------------------------------------------------
(* Program constants *)

HoursPerDay == 24
ETOffset == -5
maxDaysPerRequest == 7

\* UTC offsets the process may run in: America/New_York, UTC, Asia/Shanghai.
LocalOffsets == {ETOffset, 0, 8}

----------------------------------------------------------------------------
(* Time *)

\* t.In(loc).Format("2006-01-02"): the calendar date of instant t at offset off.
DateOf(t, off) == (t + off) \div HoursPerDay

\* t.In(loc).Weekday(): 0 = Sunday ... 6 = Saturday.
Weekday(t, off) == DateOf(t, off) % 7

Sunday == 0
Saturday == 6

\* The instant that is hour h (Eastern wall clock) of day number day.
AtET(day, h) == day * HoursPerDay + h - ETOffset

----------------------------------------------------------------------------
(* Prices *)

Dollars(n) == n * 1000

RECURSIVE Pow10(_)
Pow10(n) == IF n <= 0 THEN 1 ELSE 10 * Pow10(n - 1)

\* math.Round(value*factor)/factor on mills: half away from zero.
roundToDecimal(value, places) ==
    LET unit == Pow10(3 - places)
        half == unit \div 2
    IN  IF value >= 0
        THEN ((value + half) \div unit) * unit
        ELSE 0 - (((0 - value + half) \div unit) * unit)

----------------------------------------------------------------------------
(* Bars *)

Bar(sym, ts, o, h, l, c, v) ==
    [symbol |-> sym, timestamp |-> ts, open |-> o, high |-> h, low |-> l,
     close |-> c, volume |-> v]

\* Validated bars of one week (Thursday = day 4, Friday = 5, Saturday = 6).
BarThu19 == Bar("TSLA", AtET(4, 19), 99000, 99500, 98995, 99400, 700)
BarFri09 == Bar("TSLA", AtET(5, 9), 100004, 101000, 99000, 100500, 1000)
BarFri12 == Bar("TSLA", AtET(5, 12), 100200, 103006, 98500, 100900, 500)
BarFri19 == Bar("TSLA", AtET(5, 19), 100400, 102000, 100000, 101800, 2000)
BarSat10 == Bar("TSLA", AtET(6, 10), 101000, 101500, 100500, 101200, 300)
\* The 09:00 bar as a later fetch reports it, and the same minute of another symbol.
BarFri09b == Bar("TSLA", AtET(5, 9), 100004, 101500, 99000, 101200, 1500)
BarFri09x == Bar("AAPL", AtET(5, 9), 200000, 200500, 199500, 200100, 900)

InsertPool == {BarFri09, BarFri09b, BarFri19, BarFri09x}
SummaryPool == {BarThu19, BarFri09, BarFri12, BarFri19, BarSat10}

\* The batches of at most n distinct bars of pool, in every order.
Batches(pool, n) ==
    UNION {{s \in [1..k -> pool] : \A i, j \in 1..k : i # j => s[i] # s[j]} : k \in 0..n}

Range(s) == {s[i] : i \in 1..Len(s)}

----------------------------------------------------------------------------
(* Time-series store: stock_minute_data *)

\* UNIQUE(symbol, timestamp)
MinuteKey(r) == <<r.symbol, r.timestamp>>

\* INSERT without conflict handling and without the unique index: rows pile up.
InsertOrReplaceMinute_Append(table, row) ==
    table \cup {row}

\* INSERT OR IGNORE: the row already stored under the key wins.
InsertOrReplaceMinute_Ignore(table, row) ==
    IF \E r \in table : MinuteKey(r) = MinuteKey(row) THEN table ELSE table \cup {row}

\* The unique index on symbol alone: a new row replaces every row of its symbol.
InsertOrReplaceMinute_BySymbol(table, row) ==
    {r \in table : r.symbol # row.symbol} \cup {row}

\* INSERT OR REPLACE INTO stock_minute_data: the conflicting row is deleted, the
\* new one inserted.  (The id and created_at columns are not read by any caller.)
InsertOrReplaceMinute(table, row) ==
    {r \in table : MinuteKey(r) # MinuteKey(row)} \cup {row}

\* The values bound to the statement: prices rounded to 2 decimal places.
MinuteRow(bar) ==
    [symbol |-> bar.symbol, timestamp |-> bar.timestamp,
     open |-> roundToDecimal(bar.open, 2), high |-> roundToDecimal(bar.high, 2),
     low |-> roundToDecimal(bar.low, 2), close |-> roundToDecimal(bar.close, 2),
     volume |-> bar.volume]

\* The loop's first n stmt.Exec calls, in the order of the batch.
RECURSIVE ExecInserts(_, _, _)
ExecInserts(table, bars, n) ==
    IF n = 0 THEN table
    ELSE InsertOrReplaceMinute(ExecInserts(table, bars, n - 1), MinuteRow(bars[n]))

\* Where a transaction over n statements may fail: Begin, Prepare, the i-th Exec,
\* Commit; or nowhere.
NoFault == [stage |-> "none", index |-> 0]
TxFaults(n) ==
    {NoFault}
    \cup {[stage |-> st, index |-> 0] : st \in {"begin", "prepare", "commit"}}
    \cup {[stage |-> "exec", index |-> i] : i \in 1..n}

\* The number of statements executed inside the transaction before it ends.
Executed(fault, n) ==
    CASE fault.stage \in {"begin", "prepare"} -> 0
      [] fault.stage = "exec" -> fault.index - 1
      [] OTHER -> n

\* Statements issued outside a transaction: what was executed stays.
TxResult_NoRollback(before, after, committed) ==
    after

\* tx.Begin ... defer tx.Rollback() ... tx.Commit(): the table after the call.
TxResult(before, after, committed) ==
    IF committed THEN after ELSE before

\* Database.InsertMinuteData: the table after the call and whether it returned
\* an error.
InsertMinuteData(table, bars, fault) ==
    IF Len(bars) = 0
    THEN [table |-> table, err |-> FALSE]
    ELSE [table |-> TxResult(table, ExecInserts(table, bars, Executed(fault, Len(bars))),
                             fault.stage = "none"),
          err |-> fault.stage # "none"]

\* History of committed writes: the bar last written under each key.
RECURSIVE RecordWrites(_, _, _)
RecordWrites(h, bars, n) ==
    IF n = 0 THEN h
    ELSE LET p == RecordWrites(h, bars, n - 1)
             k == MinuteKey(bars[n])
         IN  [x \in DOMAIN p \cup {k} |-> IF x = k THEN bars[n] ELSE p[x]]

Committed(h, bars, err) ==
    IF err THEN h ELSE RecordWrites(h, bars, Len(bars))

\* The faults a call over bars may meet (an empty batch opens no transaction).
FaultsFor(bars) == IF Len(bars) = 0 THEN {NoFault} ELSE TxFaults(Len(bars))

\* The effect of a call that returned res.
InsertReturns(bars, fault, res) ==
    /\ minuteData' = res.table
    /\ lastWrite' = Committed(lastWrite, bars, res.err)
    /\ last' = [op |-> "InsertMinuteData", bars |-> bars, fault |-> fault,
                err |-> res.err]
    /\ UNCHANGED <<localOffset, now, dailySummary, sample, verdict>>
    /\ UNCHANGED sysVars

\* A caller hands a batch to InsertMinuteData.
DoInsertMinuteData(bars, fault) ==
    InsertReturns(bars, fault, InsertMinuteData(minuteData, bars, fault))

----------------------------------------------------------------------------
(* Initial state: a fresh database (createTables), no call made yet. *)

StartOfWeek == AtET(4, 21)

NoSample == [present |-> FALSE, open |-> 0, high |-> 0, low |-> 0, close |-> 0,
             volume |-> 0]

\* No goroutine of the service is running and nothing is watched.
NoSweep == [pc |-> "idle"]
NoSync == [pc |-> "idle"]
NoFetch == [pc |-> "idle"]

SysIdle ==
    /\ watched = {}
    /\ sweep = NoSweep
    /\ sync = NoSync
    /\ fetch = NoFetch

Init ==
    /\ localOffset \in LocalOffsets
    /\ now = StartOfWeek
    /\ minuteData = {}
    /\ dailySummary = {}
    /\ lastWrite = << >>
    /\ last = [op |-> "none"]
    /\ sample = NoSample
    /\ verdict = "pending"
    /\ SysIdle

----------------------------------------------------------------------------
(* The store under arbitrary batches *)

InsertBatches == Batches(InsertPool, MaxBars)

NextInsert ==
    \E bars \in InsertBatches :
        \E fault \in FaultsFor(bars) : DoInsertMinuteData(bars, fault)

\* The store does not read the clock or the timezone: one deployment (the
\* container's TZ=Asia/Shanghai) stands for all.
InitInsert == Init /\ localOffset = 8

SpecInsert == InitInsert /\ [][NextInsert]_vars

\* C1: after any sequence of InsertMinuteData calls the table holds exactly one
\* row per (symbol, timestamp) ever committed, and that row carries the values
\* of the latest committed write for the key (the bar's prices as written,
\* i.e. rounded to 2 decimal places, and its volume).
C1_OneRowPerKeyLatestWins ==
    /\ \A r1, r2 \in minuteData : MinuteKey(r1) = MinuteKey(r2) => r1 = r2
    /\ {MinuteKey(r) : r \in minuteData} = DOMAIN lastWrite
    /\ \A r \in minuteData : r = MinuteRow(lastWrite[MinuteKey(r)])

\* A committed batch wrote the 09:00 bar twice with different values; the table
\* holds the second one next to rows of other keys.
C1_Witness ==
    /\ last.op = "InsertMinuteData"
    /\ ~last.err
    /\ \E i, j \in 1..Len(last.bars) :
          i < j /\ last.bars[i] = BarFri09 /\ last.bars[j] = BarFri09b
    /\ MinuteRow(BarFri09b) \in minuteData
    /\ Cardinality(minuteData) >= 2

\* C5: a call of InsertMinuteData that fails (an Exec or the Commit) leaves the
\* table exactly as it was before the call: no bar of the batch is committed.
C5_AllOrNothing ==
    [][(last'.op = "InsertMinuteData" /\ last'.err) => minuteData' = minuteData]_vars

\* A call failed at its second or a later Exec, after an earlier statement of the
\* same transaction had changed a stored row.
C5_Witness ==
    /\ last.op = "InsertMinuteData"
    /\ last.err
    /\ last.fault.stage = "exec"
    /\ last.fault.index >= 2
    /\ MinuteRow(last.bars[1]) \notin minuteData

----------------------------------------------------------------------------
(* Daily aggregator: stock_daily_summary *)

\* UNIQUE(symbol, date)
SummaryKey(r) == <<r.symbol, r.date>>

\* INSERT OR REPLACE INTO stock_daily_summary.
InsertOrReplaceSummary(table, row) ==
    {r \in table : SummaryKey(r) # SummaryKey(row)} \cup {row}

\* weekday == time.Saturday || weekday == time.Sunday, on Eastern time.
IsWeekend(bar) == Weekday(bar.timestamp, ETOffset) \in {Saturday, Sunday}

\* The date string a bar is grouped under: etTime.Format("2006-01-02").
GroupDate(bar) == DateOf(bar.timestamp, ETOffset)

\* The keys of the map dailyData.
GroupDates(bars) == {GroupDate(bars[i]) : i \in {j \in 1..Len(bars) : ~IsWeekend(bars[j])}}

\* dailyData[date]: the bars appended under date, in input order.
dailyData(bars, date) ==
    SelectSeq(bars, LAMBDA b : ~IsWeekend(b) /\ GroupDate(b) = date)

Swap(s, i, j) == [s EXCEPT ![i] = s[j], ![j] = s[i]]

\* The inner loop, from j to the end: swap when dayBars[i] is after dayBars[j].
RECURSIVE SortInner(_, _, _)
SortInner(s, i, j) ==
    IF j > Len(s) THEN s
    ELSE SortInner(IF s[i].timestamp > s[j].timestamp THEN Swap(s, i, j) ELSE s, i, j + 1)

\* The outer loop, from i to len-1.
RECURSIVE SortOuter(_, _)
SortOuter(s, i) ==
    IF i >= Len(s) THEN s ELSE SortOuter(SortInner(s, i, i + 1), i + 1)

SortByTimestamp(dayBars) == SortOuter(dayBars, 1)

\* The accumulator never takes a smaller low once it is positive and never
\* starts from zero: low is the first bar's low.
StepLow_FirstOnly(low, barLow) ==
    IF low = 0 THEN barLow ELSE low

\* if bar.Low < low || low == 0 { low = bar.Low }
StepLow(low, barLow) ==
    IF barLow < low \/ low = 0 THEN barLow ELSE low

\* if bar.High > high { high = bar.High }
StepHigh(high, barHigh) ==
    IF barHigh > high THEN barHigh ELSE high

\* var high, low float64; var volume int64; then the loop over the first n bars.
RECURSIVE Accumulate(_, _)
Accumulate(dayBars, n) ==
    IF n = 0 THEN [high |-> 0, low |-> 0, volume |-> 0]
    ELSE LET a == Accumulate(dayBars, n - 1)
         IN  [high |-> StepHigh(a.high, dayBars[n].high),
              low |-> StepLow(a.low, dayBars[n].low),
              volume |-> a.volume + dayBars[n].volume]

\* The DailySummary struct built from a sorted group and the loop's result;
\* Date is the first bar's instant.
SummaryOf(symbol, dayBars, acc) ==
    [symbol |-> symbol, Date |-> dayBars[1].timestamp,
     open |-> roundToDecimal(dayBars[1].open, 2),
     high |-> roundToDecimal(acc.high, 2),
     low |-> roundToDecimal(acc.low, 2),
     close |-> roundToDecimal(dayBars[Len(dayBars)].close, 2),
     volume |-> acc.volume]

SummaryOfSorted(symbol, dayBars) ==
    SummaryOf(symbol, dayBars, Accumulate(dayBars, Len(dayBars)))

\* The body of the loop over dailyData for one group.
DaySummary(symbol, unsorted) ==
    SummaryOfSorted(symbol, SortByTimestamp(unsorted))

\* The row bound to the insert statement: the date column is
\* summary.Date.Format("2006-01-02"), rendered in the location the bar's
\* timestamp carries.  The fetcher builds timestamps with time.Unix, whose
\* location is time.Local.
SummaryRow(summary, off) ==
    [symbol |-> summary.symbol, date |-> DateOf(summary.Date, off),
     open |-> summary.open, high |-> summary.high, low |-> summary.low,
     close |-> summary.close, volume |-> summary.volume]

\* The rows of the loop over the map summaries, visited in the given order.
SummaryRows(symbol, bars, order, off) ==
    [i \in 1..Len(order) |->
        SummaryRow(DaySummary(symbol, dailyData(bars, order[i])), off)]

\* Go ranges over a map in an unspecified order: every enumeration of the keys.
Orders(bars) ==
    LET dates == GroupDates(bars)
        n == Cardinality(dates)
    IN  {o \in [1..n -> dates] : \A i, j \in 1..n : i # j => o[i] # o[j]}

RECURSIVE ExecSummaries(_, _, _)
ExecSummaries(table, rows, n) ==
    IF n = 0 THEN table
    ELSE InsertOrReplaceSummary(ExecSummaries(table, rows, n - 1), rows[n])

\* time.LoadLocation may fail before the transaction is opened.
SummaryFaults(n) == TxFaults(n) \cup {[stage |-> "location", index |-> 0]}

\* The rows written without a transaction: what was executed before the
\* failure stays.
WriteSummaries_NoTx(table, rows, fault) ==
    [table |-> ExecSummaries(table, rows, Executed(fault, Len(rows))),
     err |-> fault.stage # "none",
     rows |-> rows]

\* The transaction that binds rows one by one and commits.
WriteSummaries(table, rows, fault) ==
    [table |-> TxResult(table, ExecSummaries(table, rows, Executed(fault, Len(rows))),
                        fault.stage = "none"),
     err |-> fault.stage # "none",
     rows |-> rows]

\* Database.UpdateDailySummary: the table after the call, whether it returned an
\* error, and the rows of its summary set in the order they were bound.
UpdateDailySummary(table, symbol, bars, order, fault, off) ==
    IF Len(bars) = 0
    THEN [table |-> table, err |-> FALSE, rows |-> << >>]
    ELSE IF fault.stage = "location"
    THEN [table |-> table, err |-> TRUE, rows |-> << >>]
    ELSE WriteSummaries(table, SummaryRows(symbol, bars, order, off), fault)

\* The effect of a call that returned res.
UpdateReturns(symbol, bars, order, fault, res) ==
    /\ dailySummary' = res.table
    /\ last' = [op |-> "UpdateDailySummary", symbol |-> symbol, bars |-> bars,
                order |-> order, fault |-> fault, err |-> res.err,
                rows |-> res.rows]
    /\ UNCHANGED <<localOffset, now, minuteData, lastWrite, sample, verdict>>
    /\ UNCHANGED sysVars

\* A caller hands a bar set to UpdateDailySummary.
DoUpdateDailySummary(symbol, bars, order, fault) ==
    UpdateReturns(symbol, bars, order, fault,
                  UpdateDailySummary(dailySummary, symbol, bars, order, fault,
                                     localOffset))

SummaryBatches == Batches(SummaryPool, MaxBars)

NextSummary ==
    \E bars \in SummaryBatches :
        \E order \in Orders(bars) : DoUpdateDailySummary("TSLA", bars, order, NoFault)

SpecSummary == Init /\ [][NextSummary]_vars

----------------------------------------------------------------------------
(* Claims about the aggregator, stated without its loops *)

\* The bars of a set that fall on exchange-local date d, weekends excluded.
BarsOn(bars, d) ==
    {b \in Range(bars) : GroupDate(b) = d /\ Weekday(b.timestamp, ETOffset) \notin {0, 6}}

TradingDates(bars) ==
    {GroupDate(b) : b \in {c \in Range(bars) : Weekday(c.timestamp, ETOffset) \notin {0, 6}}}

WeekendDates(bars) ==
    {GroupDate(b) : b \in {c \in Range(bars) : Weekday(c.timestamp, ETOffset) \in {0, 6}}}

Earliest(S) == CHOOSE b \in S : \A c \in S : b.timestamp <= c.timestamp
Latest(S) == CHOOSE b \in S : \A c \in S : b.timestamp >= c.timestamp
MaxHigh(S) == CHOOSE x \in {b.high : b \in S} : \A b \in S : b.high <= x
MinLow(S) == CHOOSE x \in {b.low : b \in S} : \A b \in S : b.low >= x

RECURSIVE SumVolume(_)
SumVolume(S) ==
    IF S = {} THEN 0
    ELSE LET b == CHOOSE x \in S : TRUE IN b.volume + SumVolume(S \ {b})

DistinctTimestamps(S) == \A b, c \in S : b.timestamp = c.timestamp => b = c

Summarised == last.op = "UpdateDailySummary" /\ ~last.err

\* C3: every summary row written by UpdateDailySummary is keyed by the Eastern
\* calendar date of the bars of its group, whatever the process-local timezone.
C3_DateKeyIsExchangeDate ==
    Summarised =>
        \A i \in 1..Len(last.rows) :
            \A b \in BarsOn(last.bars, last.order[i]) :
                last.rows[i].date = DateOf(b.timestamp, ETOffset)

\* C6: a bar set spanning k trading dates yields k rows under k distinct
\* (symbol, date) keys.
C6_DistinctKeysPerGroup ==
    Summarised =>
        LET k == Cardinality(TradingDates(last.bars))
        IN  /\ Len(last.rows) = k
            /\ Cardinality({SummaryKey(last.rows[i]) : i \in 1..Len(last.rows)}) = k

\* C7: running UpdateDailySummary again over the same bars, in any order of the
\* bars and of the day-groups, leaves the summary table as the first run left it.
C7_RerunChangesNothing ==
    [][(/\ Summarised
        /\ last'.op = "UpdateDailySummary"
        /\ ~last'.err
        /\ last'.symbol = last.symbol
        /\ Range(last'.bars) = Range(last.bars))
       => dailySummary' = dailySummary]_vars

\* C8 as stated: each group's row carries the open of its earliest bar, the
\* close of its latest bar, the maximum high, the minimum low and the summed
\* volume of the group, the prices exactly as the bars carry them.
C8_SummaryOfGroup_Unrounded ==
    Summarised =>
        \A i \in 1..Len(last.rows) :
            LET S == BarsOn(last.bars, last.order[i])
                r == last.rows[i]
            IN  DistinctTimestamps(S) =>
                    /\ r.open = Earliest(S).open
                    /\ r.close = Latest(S).close
                    /\ r.high = MaxHigh(S)
                    /\ r.low = MinLow(S)
                    /\ r.volume = SumVolume(S)

\* C8 (amended): each group's row carries the open of its earliest bar, the
\* close of its latest bar, the maximum high and the minimum low, each rounded
\* to 2 decimal places (half away from zero), and the summed volume.
C8_SummaryOfGroup ==
    Summarised =>
        \A i \in 1..Len(last.rows) :
            LET S == BarsOn(last.bars, last.order[i])
                r == last.rows[i]
            IN  DistinctTimestamps(S) =>
                    /\ r.open = roundToDecimal(Earliest(S).open, 2)
                    /\ r.close = roundToDecimal(Latest(S).close, 2)
                    /\ r.high = roundToDecimal(MaxHigh(S), 2)
                    /\ r.low = roundToDecimal(MinLow(S), 2)
                    /\ r.volume = SumVolume(S)

\* The three Friday bars were summarised from an order that is not
\* chronological, the extreme high and low lying in the middle bar.
C8_Witness ==
    /\ Summarised
    /\ Len(last.bars) = 3
    /\ last.bars[1] = BarFri19
    /\ last.bars[2] = BarFri09
    /\ last.bars[3] = BarFri12
    /\ \E r \in dailySummary :
          /\ r.open = 100000 /\ r.high = 103010 /\ r.low = 98500
          /\ r.close = 101800 /\ r.volume = 3500

\* C9: bars that fall on an Eastern Saturday or Sunday feed no summary: the
\* call leaves the rows keyed by such a date as they were, and writes the rows
\* it would write without those bars.
C9_WeekendBarsIgnored ==
    [][(last'.op = "UpdateDailySummary" /\ ~last'.err) =>
          /\ \A d \in WeekendDates(last'.bars) :
                {r \in dailySummary' : r.date = d} = {r \in dailySummary : r.date = d}
          /\ last'.rows = SummaryRows(last'.symbol,
                                      SelectSeq(last'.bars, LAMBDA b : ~IsWeekend(b)),
                                      last'.order, localOffset)]_vars

----------------------------------------------------------------------------
(* Bar validator: the checks of GetMinuteData's inner loop, in code order *)

\* A price move of exactly 20% is rejected as well.
ExtremeChange_Inclusive(open, close) ==
    (close - open) * 100 >= 20 * open \/ (close - open) * 100 <= 0 - 20 * open

\* changePercent := (priceChange / open) * 100;
\* changePercent > 20 || changePercent < -20   (open > 0 here)
ExtremeChange(open, close) ==
    (close - open) * 100 > 20 * open \/ (close - open) * 100 < 0 - 20 * open

\* open < 1 || open > 10000   (dollars)
OutOfRange(price) == price < Dollars(1) \/ price > Dollars(10000)

\* TRUE when the sample is appended to allBars, FALSE when the loop continues
\* past it.  present is FALSE when one of the parallel arrays has no entry at
\* the sample's index.
Accepts(s) ==
    /\ s.present
    /\ ~(s.close = 0 \/ s.open = 0 \/ s.high = 0 \/ s.low = 0)
    /\ ~(s.volume = 0)
    /\ ~(OutOfRange(s.open) \/ OutOfRange(s.high) \/ OutOfRange(s.low)
         \/ OutOfRange(s.close))
    /\ ~(s.high < s.open \/ s.high < s.close \/ s.low > s.open \/ s.low > s.close)
    /\ ~(s.open > 0 /\ ExtremeChange(s.open, s.close))

\* Raw values the upstream may report: zero (a JSON null), half a dollar, the
\* bounds 1 and 10000 and their neighbours, and prices 20% and just over 20%
\* apart.
RawPrices ==
    {0, 500, 999, Dollars(1), 79999, Dollars(80), Dollars(100), Dollars(120), 120001,
     Dollars(10000), 10000001}
RawVolumes == {0 - 5, 0, 100}

RawSamples ==
    [present : BOOLEAN, open : RawPrices, high : RawPrices, low : RawPrices,
     close : RawPrices, volume : RawVolumes]

\* The loop body runs on the sample.
ValidateSample ==
    /\ verdict = "pending"
    /\ verdict' = IF Accepts(sample) THEN "accepted" ELSE "rejected"
    /\ UNCHANGED <<localOffset, now, minuteData, dailySummary, lastWrite, last, sample>>
    /\ UNCHANGED sysVars

\* The upstream has reported some sample; the loop has not looked at it yet.
InitValidate ==
    /\ localOffset = 8
    /\ now = StartOfWeek
    /\ minuteData = {}
    /\ dailySummary = {}
    /\ lastWrite = << >>
    /\ last = [op |-> "none"]
    /\ sample \in RawSamples
    /\ verdict = "pending"
    /\ SysIdle

\* strings.ToUpper on the symbols in use.
ToUpper(symbol) ==
    CASE symbol = "tsla" -> "TSLA"
      [] symbol = "aapl" -> "AAPL"
      [] OTHER -> symbol

\* The MinuteBar built from an accepted sample.
MinuteBarOf(symbol, x) ==
    Bar(ToUpper(symbol), x.timestamp, x.open, x.high, x.low, x.close, x.volume)

\* The accepted sample goes the way of every fetched bar: it is built into a
\* MinuteBar stamped with its minute and handed to InsertMinuteData.
StoreAccepted ==
    /\ verdict = "accepted"
    /\ last.op = "none"
    /\ DoInsertMinuteData(<< MinuteBarOf("TSLA", [timestamp |-> now] @@ sample) >>, NoFault)

NextValidate == ValidateSample \/ StoreAccepted

SpecValidate == InitValidate /\ [][NextValidate]_vars

Abs(x) == IF x < 0 THEN 0 - x ELSE x

\* C10: a sample is accepted if and only if no price is zero, the volume is not
\* 0, every price lies in [1, 10000], high >= open, high >= close, low <= open,
\* low <= close and |close - open| / open <= 0.20; the verdict is a function of
\* the five values.
C10_AcceptedIff ==
    (verdict # "pending" /\ sample.present) =>
        (verdict = "accepted" <=>
            /\ sample.open # 0 /\ sample.high # 0 /\ sample.low # 0 /\ sample.close # 0
            /\ sample.volume # 0
            /\ \A p \in {sample.open, sample.high, sample.low, sample.close} :
                  1000 <= p /\ p <= 10000000
            /\ sample.high >= sample.open /\ sample.high >= sample.close
            /\ sample.low <= sample.open /\ sample.low <= sample.close
            /\ 5 * Abs(sample.close - sample.open) <= sample.open)

\* A sample whose close is exactly 20% above its open, at the lower price bound
\* on its low side, was accepted.
C10_Witness ==
    /\ verdict = "accepted"
    /\ sample.open = 100000
    /\ sample.close = 120000
    /\ sample.high = 120000
    /\ sample.low = 1000

\* C27: every minute bar that reaches the store satisfies low <= open <= high,
\* low <= close <= high, has its four prices within [1, 10000] dollars and a
\* non-negative volume, whatever the upstream payload held (negative volumes
\* and parallel arrays of unequal length included).
C27_StoredBarsAreWellFormed ==
    \A r \in minuteData :
        /\ r.low <= r.open /\ r.open <= r.high
        /\ r.low <= r.close /\ r.close <= r.high
        /\ \A p \in {r.open, r.high, r.low, r.close} : Dollars(1) <= p /\ p <= Dollars(10000)
        /\ r.volume >= 0

----------------------------------------------------------------------------
(* Batch fetcher: YahooFinanceClient.GetMinuteData *)

Raw(bar) ==
    [timestamp |-> bar.timestamp, present |-> TRUE, open |-> bar.open,
     high |-> bar.high, low |-> bar.low, close |-> bar.close, volume |-> bar.volume]

\* What the quote source holds for the week: the validated bars above as raw
\* samples, and a post-market sample without trades (volume 0), in time order.
Feed ==
    << Raw(BarThu19), Raw(BarFri09), Raw(BarFri12), Raw(BarFri19),
       [timestamp |-> AtET(5, 20), present |-> TRUE, open |-> 101800, high |-> 101800,
        low |-> 101800, close |-> 101800, volume |-> 0] >>

\* The chart payload for period1=startTime, period2=endTime.
Payload(startTime, endTime) ==
    SelectSeq(Feed, LAMBDA x : startTime <= x.timestamp /\ x.timestamp <= endTime)

\* The inner loop over one payload: accepted samples appended in order.
RECURSIVE AppendValid(_, _, _, _)
AppendValid(allBars, symbol, payload, i) ==
    IF i > Len(payload) THEN allBars
    ELSE AppendValid(IF Accepts(payload[i])
                     THEN Append(allBars, MinuteBarOf(symbol, payload[i]))
                     ELSE allBars,
                     symbol, payload, i + 1)

\* The cap on daysToFetch left out: the whole remainder goes into one request.
Min_Uncapped(a, b) == a

Min(a, b) == IF a < b THEN a ELSE b

\* How an upstream request may fail; each kind ends the loop with break.
FailureKinds == {"network", "status", "parse", "apierror"}
NoFailure == [batch |-> 0, kind |-> "none"]

\* The loop with a failed request skipped instead of ending the loop: the
\* windows after it are still requested.
RECURSIVE FetchLoop_SkipFailed(_, _, _, _, _, _, _)
FetchLoop_SkipFailed(symbol, clock, remainingDays, batch, failure, allBars, requests) ==
    IF remainingDays <= 0
    THEN [bars |-> allBars, requests |-> requests, err |-> FALSE]
    ELSE LET daysToFetch == IF remainingDays < maxDaysPerRequest
                            THEN remainingDays ELSE maxDaysPerRequest
             offsetDays == (batch - 1) * maxDaysPerRequest
             startTime == clock - (offsetDays + daysToFetch) * HoursPerDay
             endTime == clock - offsetDays * HoursPerDay
         IN  FetchLoop_SkipFailed(symbol, clock, remainingDays - daysToFetch, batch + 1,
                                  failure,
                                  IF failure.batch = batch THEN allBars
                                  ELSE AppendValid(allBars, symbol,
                                                   Payload(startTime, endTime), 1),
                                  Append(requests, <<startTime, endTime>>))

\* The loop `for remainingDays > 0`, entered with the given remainingDays and
\* batch: the bars accumulated and the requests issued (as start/end pairs).
\* failure names the batch whose request fails, if any.
RECURSIVE FetchLoop(_, _, _, _, _, _, _)
FetchLoop(symbol, clock, remainingDays, batch, failure, allBars, requests) ==
    IF remainingDays <= 0
    THEN [bars |-> allBars, requests |-> requests, err |-> FALSE]
    ELSE LET daysToFetch == Min(remainingDays, maxDaysPerRequest)
             offsetDays == (batch - 1) * maxDaysPerRequest
             startTime == clock - (offsetDays + daysToFetch) * HoursPerDay
             endTime == clock - offsetDays * HoursPerDay
             issued == Append(requests, <<startTime, endTime>>)
         IN  IF failure.batch = batch
             THEN [bars |-> allBars, requests |-> issued, err |-> FALSE]
             ELSE FetchLoop(symbol, clock, remainingDays - daysToFetch, batch + 1,
                            failure,
                            AppendValid(allBars, symbol, Payload(startTime, endTime), 1),
                            issued)

\* GetMinuteData(symbol, days): always returns a nil error.
GetMinuteData(symbol, days, clock, failure) ==
    FetchLoop(symbol, clock, days, 1, failure, << >>, << >>)

\* The number of requests a call for days would issue without failure.
NumBatches(days) ==
    IF days <= 0 THEN 0 ELSE (days + maxDaysPerRequest - 1) \div maxDaysPerRequest

Failures(days) ==
    {NoFailure} \cup [batch : 1..NumBatches(days), kind : FailureKinds]

----------------------------------------------------------------------------
(* The fetcher under every day count and failing window *)

\* Largest day count asked of GetMinuteData directly: three windows.
MaxDays == 15

FetchDays == (0 - 1)..MaxDays
FetchSymbols == {"TSLA", "tsla"}

\* Instants of a fetch: Friday 21:00 of the feed's week, Friday 10:00 a week
\* later, Friday 15:00 two weeks later (Eastern time).
FetchClock == {AtET(5, 21), AtET(12, 10), AtET(19, 15)}

\* The effect of a call that returned res.
FetchReturns(symbol, days, failure, res) ==
    /\ last' = [op |-> "GetMinuteData", symbol |-> symbol, days |-> days,
                failure |-> failure, bars |-> res.bars, requests |-> res.requests,
                err |-> res.err]
    /\ UNCHANGED <<localOffset, now, minuteData, dailySummary, lastWrite, sample,
                   verdict>>
    /\ UNCHANGED sysVars

\* A caller asks the fetcher for days of a symbol.
DoGetMinuteData(symbol, days, failure) ==
    FetchReturns(symbol, days, failure, GetMinuteData(symbol, days, now, failure))

InitFetch ==
    /\ localOffset = 8
    /\ now \in FetchClock
    /\ minuteData = {}
    /\ dailySummary = {}
    /\ lastWrite = << >>
    /\ last = [op |-> "none"]
    /\ sample = NoSample
    /\ verdict = "pending"
    /\ SysIdle

NextFetch ==
    \E symbol \in FetchSymbols, days \in FetchDays :
        \E failure \in Failures(days) : DoGetMinuteData(symbol, days, failure)

SpecFetch == InitFetch /\ [][NextFetch]_vars

\* Window i of a call for days at clock, as day offsets back from the clock.
WindowFrom(days, i) == IF i * maxDaysPerRequest < days THEN i * maxDaysPerRequest ELSE days
WindowTo(i) == (i - 1) * maxDaysPerRequest

\* The validated bars the feed holds for window i.
WindowBars(symbol, clock, days, i) ==
    LET inWindow(x) == /\ clock - WindowFrom(days, i) * HoursPerDay <= x.timestamp
                       /\ x.timestamp <= clock - WindowTo(i) * HoursPerDay
                       /\ Accepts(x)
        samples == SelectSeq(Feed, inWindow)
    IN  [j \in 1..Len(samples) |-> MinuteBarOf(symbol, samples[j])]

RECURSIVE WindowsBars(_, _, _, _)
WindowsBars(symbol, clock, days, k) ==
    IF k = 0 THEN << >>
    ELSE WindowsBars(symbol, clock, days, k - 1) \o WindowBars(symbol, clock, days, k)

FetchFailedAt(k) == last.op = "GetMinuteData" /\ last.failure.batch = k

\* C11: when the request of window k fails, GetMinuteData returns exactly the
\* validated bars of windows 1..k-1, has issued k requests (none for a window
\* after k), and returns no error.
C11_FailedWindowEndsFetch ==
    \A k \in 1..NumBatches(MaxDays + 1) :
        FetchFailedAt(k) =>
            /\ last.bars = WindowsBars(last.symbol, now, last.days, k - 1)
            /\ Len(last.requests) = k
            /\ ~last.err

\* Window 2 of 3 failed after window 1 had delivered bars; the feed holds bars
\* for window 2, which the call does not return.
C11_Witness ==
    /\ FetchFailedAt(2)
    /\ NumBatches(last.days) = 3
    /\ Len(last.bars) > 0
    /\ Len(WindowBars(last.symbol, now, last.days, 2)) > 0

\* C12: without upstream failure a call for totalDays >= 1 issues
\* ceil(totalDays / 7) requests; window i reaches from min(7i, totalDays) to
\* 7(i-1) days back from now, so each window spans at most 7 days, the windows
\* meet only at their ends, and together they cover the last totalDays days.
C12_WindowsPartitionDays ==
    (last.op = "GetMinuteData" /\ last.failure = NoFailure /\ last.days >= 1) =>
        LET n == Len(last.requests)
            start(i) == last.requests[i][1]
            end(i) == last.requests[i][2]
        IN  /\ (n - 1) * maxDaysPerRequest < last.days
            /\ last.days <= n * maxDaysPerRequest
            /\ \A i \in 1..n :
                  /\ start(i) = now - WindowFrom(last.days, i) * HoursPerDay
                  /\ end(i) = now - WindowTo(i) * HoursPerDay
                  /\ start(i) < end(i)
                  /\ end(i) - start(i) <= maxDaysPerRequest * HoursPerDay
            /\ end(1) = now
            /\ \A i \in 1..(n - 1) : start(i) = end(i + 1)
            /\ start(n) = now - last.days * HoursPerDay

\* A call for 15 days went through: three windows, the last one a single day.
C12_Witness ==
    /\ last.op = "GetMinuteData"
    /\ last.failure = NoFailure
    /\ last.days = 15
    /\ Len(last.requests) = 3
    /\ last.requests[3][2] - last.requests[3][1] = HoursPerDay

----------------------------------------------------------------------------
(* The fetcher one loop step at a time: requests, delays, return *)

\* time.Sleep(1 * time.Second), in seconds.
requestDelay == 1

\* A loop that goes on until the remainder is exactly zero.
LoopContinues_NonZero(remainingDays) == remainingDays # 0

\* for remainingDays > 0
LoopContinues(remainingDays) == remainingDays > 0

\* A delay after every request, the last one included.
SleepsAfterRequest_Always(remainingDays) == TRUE

\* if remainingDays > maxDaysPerRequest { time.Sleep(...) }, evaluated before
\* the remainder is decreased: TRUE when another window is left.
SleepsAfterRequest(remainingDays) == remainingDays > maxDaysPerRequest

\* How a request may end.  The client gives up after its 30-second timeout
\* and returns an error, as for any network failure.
RequestOutcomes == {"ok", "timeout"} \cup FailureKinds

\* The call is entered: the loop variables are initialised.
FetchCall(symbol, days) ==
    /\ fetch.pc \in {"idle", "done"}
    /\ fetch' = [pc |-> "loop", symbol |-> symbol, days |-> days, remainingDays |-> days,
                 batch |-> 1, allBars |-> << >>, trace |-> << >>]
    /\ UNCHANGED <<localOffset, now, minuteData, dailySummary, lastWrite, last, sample,
                   verdict, watched, sweep, sync>>

\* One pass of the loop body up to the delay: the request is issued and
\* answered; a failure breaks out of the loop, a payload is validated and
\* appended.
FetchRequest(outcome) ==
    /\ fetch.pc = "loop"
    /\ LoopContinues(fetch.remainingDays)
    /\ LET daysToFetch == Min(fetch.remainingDays, maxDaysPerRequest)
           offsetDays == (fetch.batch - 1) * maxDaysPerRequest
           startTime == now - (offsetDays + daysToFetch) * HoursPerDay
           endTime == now - offsetDays * HoursPerDay
           issued == Append(fetch.trace, [ev |-> "request", batch |-> fetch.batch,
                                          outcome |-> outcome])
           got == AppendValid(fetch.allBars, fetch.symbol, Payload(startTime, endTime), 1)
       IN  fetch' = IF outcome # "ok"
                    THEN [fetch EXCEPT !.pc = "done", !.trace = issued]
                    ELSE IF SleepsAfterRequest(fetch.remainingDays)
                    THEN [fetch EXCEPT !.pc = "sleep", !.trace = issued, !.allBars = got]
                    ELSE [fetch EXCEPT !.trace = issued, !.allBars = got,
                                       !.remainingDays = @ - daysToFetch,
                                       !.batch = @ + 1]
    /\ UNCHANGED <<localOffset, now, minuteData, dailySummary, lastWrite, last, sample,
                   verdict, watched, sweep, sync>>

\* The delay has passed; the loop variables are advanced.
FetchSleep ==
    /\ fetch.pc = "sleep"
    /\ fetch' = [fetch EXCEPT !.pc = "loop",
                              !.trace = Append(@, [ev |-> "sleep", seconds |-> requestDelay]),
                              !.remainingDays = @ - Min(@, maxDaysPerRequest),
                              !.batch = @ + 1]
    /\ UNCHANGED <<localOffset, now, minuteData, dailySummary, lastWrite, last, sample,
                   verdict, watched, sweep, sync>>

\* The loop condition fails: return allBars, nil.
FetchReturn ==
    /\ fetch.pc = "loop"
    /\ ~LoopContinues(fetch.remainingDays)
    /\ fetch' = [fetch EXCEPT !.pc = "done"]
    /\ UNCHANGED <<localOffset, now, minuteData, dailySummary, lastWrite, last, sample,
                   verdict, watched, sweep, sync>>

FetchStep == (\E outcome \in RequestOutcomes : FetchRequest(outcome)) \/ FetchSleep \/ FetchReturn

NextFetchSteps ==
    \/ \E symbol \in FetchSymbols, days \in FetchDays : FetchCall(symbol, days)
    \/ FetchStep

SpecFetchSteps == InitFetch /\ [][NextFetchSteps]_vars

\* The goroutine running the call is scheduled, the request returns (at the
\* latest when the client's timeout expires) and the sleep ends.
FairFetchSteps == SpecFetchSteps /\ WF_vars(FetchStep)

\* The requests issued so far by the running call.
IssuedRequests == SelectSeq(fetch.trace, LAMBDA e : e.ev = "request")

CeilWindows(totalDays) == IF totalDays <= 0 THEN 0 ELSE (totalDays + 6) \div 7

\* C26: GetMinuteData returns for every totalDays and every pattern of
\* request outcomes (success, failure, timeout) after at most
\* ceil(totalDays / 7) requests; for totalDays <= 0 it issues no request and
\* returns an empty result.
C26_FetchTerminates ==
    /\ [](fetch.pc # "idle" =>
            /\ Len(IssuedRequests) <= CeilWindows(fetch.days)
            /\ fetch.days <= 0 => (fetch.trace = << >> /\ fetch.allBars = << >>))
    /\ (fetch.pc \in {"loop", "sleep"}) ~> (fetch.pc = "done")

\* A call for 15 days returned after its second request timed out.
C26_Witness ==
    /\ fetch.pc = "done"
    /\ fetch.days = 15
    /\ Len(IssuedRequests) = 2
    /\ fetch.trace[Len(fetch.trace)].outcome = "timeout"

----------------------------------------------------------------------------
(* Fetch planner and orchestrator: StockCollector.CollectHistoricalData *)

\* time.Time{}: an instant long before any bar.
ZeroTime == AtET(0 - 700000, 0)

\* Database.GetLatestTimestamp: MAX(timestamp) of the symbol's rows, the zero
\* time when there is none.  (The text round trip through the driver is taken
\* to give back the instant and the location it was written with.)
GetLatestTimestamp(table, symbol) ==
    LET ts == {r.timestamp : r \in {x \in table : x.symbol = symbol}}
    IN  IF ts = {} THEN ZeroTime ELSE CHOOSE t \in ts : \A u \in ts : u <= t

\* The number of started days: hours / 24 rounded up.
TruncDays_Ceil(hours) ==
    IF hours >= 0 THEN (hours + HoursPerDay - 1) \div HoursPerDay
    ELSE 0 - ((0 - hours) \div HoursPerDay)

\* int(x / 24) on a float64 number of hours: truncation toward zero.
TruncDays(hours) ==
    IF hours >= 0 THEN hours \div HoursPerDay ELSE 0 - ((0 - hours) \div HoursPerDay)

\* The day of the latest bar is not fetched again.
daysSinceLatest_NoRefetch(latestTimestamp, clock) ==
    TruncDays(clock - latestTimestamp)

\* Line 226: int(time.Since(latestTimestamp).Hours()/24) + 1.
daysSinceLatest(latestTimestamp, clock) ==
    TruncDays(clock - latestTimestamp) + 1

\* Data of today counts as complete: nothing is fetched.
PlanFrom_SkipSameDay(since, sameDay) ==
    IF since = 1
    THEN IF sameDay THEN 0 ELSE since
    ELSE IF since <= 0 THEN 1
    ELSE since

\* The safety branch for a count of 0 or less left out.
PlanFrom_NoMinimum(since, sameDay) ==
    IF since = 1
    THEN IF sameDay THEN 1 ELSE since
    ELSE since

\* Lines 230-247: the days to fetch from daysSinceLatest and the calendar-day
\* comparison of lines 232-233.
PlanFrom(since, sameDay) ==
    IF since = 1
    THEN IF sameDay THEN 1 ELSE since
    ELSE IF since <= 0 THEN 1
    ELSE since

\* The requested days raised to 1 when there is no prior data.
PlanDays_AtLeastOne(latestTimestamp, clock, days, off) ==
    IF latestTimestamp = ZeroTime THEN (IF days < 1 THEN 1 ELSE days)
    ELSE PlanFrom(daysSinceLatest(latestTimestamp, clock),
                  DateOf(latestTimestamp, off) = DateOf(clock, off))

\* The days the call fetches, from lines 221-250.
PlanDays(latestTimestamp, clock, days, off) ==
    IF latestTimestamp = ZeroTime THEN days
    ELSE PlanFrom(daysSinceLatest(latestTimestamp, clock),
                  DateOf(latestTimestamp, off) = DateOf(clock, off))

\* An empty fetch reported as a failure of the call.
ReturnedError_EmptyIsError(latestErr, fetched, ins) ==
    latestErr \/ Len(fetched.bars) = 0 \/ ins.err

\* A failed insert only logged, as the failed summary is.
ReturnedError_InsertLogged(latestErr, fetched, ins) ==
    latestErr

\* Whether the call returns an error: at line 218 or at line 265, not at line
\* 260 (no bars) and not at line 270 (summary warning).
ReturnedError(latestErr, fetched, ins) ==
    latestErr \/ (Len(fetched.bars) > 0 /\ ins.err)

\* The outcome of the call once its stages have run: latestErr is the error of
\* GetLatestTimestamp, fetched the result of GetMinuteData, ins and upd the
\* results of InsertMinuteData and UpdateDailySummary (read only when the call
\* gets that far).
Returns(symbol, days, latestErr, planned, failure, fetched, ins, upd) ==
    /\ minuteData' = IF ~latestErr /\ Len(fetched.bars) > 0 THEN ins.table ELSE minuteData
    /\ lastWrite' = IF ~latestErr /\ Len(fetched.bars) > 0
                    THEN Committed(lastWrite, fetched.bars, ins.err) ELSE lastWrite
    /\ dailySummary' = IF ~latestErr /\ Len(fetched.bars) > 0 /\ ~ins.err
                       THEN upd.table ELSE dailySummary
    /\ last' = [op |-> "CollectHistoricalData", symbol |-> symbol,
                requestedDays |-> days,
                days |-> IF latestErr THEN days ELSE planned,
                failure |-> IF latestErr THEN NoFailure ELSE failure,
                requests |-> IF latestErr THEN << >> ELSE fetched.requests,
                bars |-> IF latestErr THEN << >> ELSE fetched.bars,
                stage |-> IF latestErr THEN "latest"
                          ELSE IF Len(fetched.bars) = 0 THEN "empty"
                          ELSE IF ins.err THEN "insert"
                          ELSE "done",
                err |-> ReturnedError(latestErr, fetched, ins),
                summaryErr |-> ~latestErr /\ Len(fetched.bars) > 0 /\ ~ins.err /\ upd.err]
    /\ UNCHANGED <<localOffset, now, sample, verdict>>

\* Lines 263-271: InsertMinuteData, then UpdateDailySummary, on the fetched bars.
Store(symbol, days, latestErr, planned, failure, fetched, insertFault, order, summaryFault) ==
    Returns(symbol, days, latestErr, planned, failure, fetched,
            InsertMinuteData(minuteData, fetched.bars, insertFault),
            UpdateDailySummary(dailySummary, symbol, fetched.bars, order,
                               summaryFault, localOffset))

\* Line 253: GetMinuteData over the planned days.
Fetch(symbol, days, latestErr, planned, failure, insertFault, order, summaryFault) ==
    Store(symbol, days, latestErr, planned, failure,
          GetMinuteData(symbol, planned, now, failure), insertFault, order,
          summaryFault)

\* CollectHistoricalData(symbol, days) at the current clock.  latestErr: the
\* query of GetLatestTimestamp fails.  failure: the upstream request that
\* fails.  insertFault, order, summaryFault: as for the two store calls.
CollectHistoricalData(symbol, days, latestErr, failure, insertFault, order, summaryFault) ==
    Fetch(symbol, days, latestErr,
          PlanDays(GetLatestTimestamp(minuteData, symbol), now, days, localOffset),
          failure, insertFault, order, summaryFault)

\* The callers' symbols and day counts: the CLI flag, the scheduler's 1, the
\* sync handler's plan.
CollectSymbols == {"TSLA"}
CollectDays == {1, 8}

\* Faults the orchestrator's two store calls are driven with: the last Exec of
\* the transaction or its Commit failing.
StoreFaults(n) ==
    {[stage |-> "commit", index |-> 0]}
    \cup (IF n = 0 THEN {} ELSE {[stage |-> "exec", index |-> n]})

\* Every way a call that fetched bars may go on.
CollectFetched(symbol, days, failure, bars) ==
    IF Len(bars) = 0
    THEN CollectHistoricalData(symbol, days, FALSE, failure, NoFault, << >>, NoFault)
    ELSE \/ \E f \in StoreFaults(Len(bars)) :
              CollectHistoricalData(symbol, days, FALSE, failure, f, << >>, NoFault)
         \/ \E order \in Orders(bars) :
              \E f \in {NoFault} \cup StoreFaults(Len(order)) :
                  CollectHistoricalData(symbol, days, FALSE, failure, NoFault, order, f)

\* Every way a call that planned its days may go on.
CollectPlanned(symbol, days, planned) ==
    \E failure \in Failures(planned) :
        CollectFetched(symbol, days, failure,
                       GetMinuteData(symbol, planned, now, failure).bars)

\* Every way one call may go: the later faults are drawn only when the call
\* gets that far.
Collect ==
    /\ \E symbol \in CollectSymbols, days \in CollectDays :
          \/ CollectHistoricalData(symbol, days, TRUE, NoFailure, NoFault, << >>, NoFault)
          \/ CollectPlanned(symbol, days,
                            PlanDays(GetLatestTimestamp(minuteData, symbol), now, days,
                                     localOffset))
    /\ UNCHANGED sysVars

\* The instants at which a collection is started: Thursday 21:00 (the initial
\* clock), Friday 21:00 and Saturday 15:00, Eastern time.
Clock == {StartOfWeek, AtET(5, 21), AtET(6, 15)}

\* Time passes.
Tick ==
    /\ \E t \in Clock : t > now /\ now' = t
    /\ UNCHANGED <<localOffset, minuteData, dailySummary, lastWrite, last, sample, verdict>>
    /\ UNCHANGED sysVars

NextCollect == Collect \/ Tick

SpecCollect == Init /\ [][NextCollect]_vars

----------------------------------------------------------------------------
(* Claims about the orchestrator *)

\* The stored minute rows of a symbol on an Eastern trading date.
StoredOn(symbol, d) ==
    {m \in minuteData : /\ m.symbol = symbol
                        /\ DateOf(m.timestamp, ETOffset) = d
                        /\ Weekday(m.timestamp, ETOffset) \notin {Sunday, Saturday}}

Collected == last.op = "CollectHistoricalData" /\ last.stage = "done" /\ ~last.summaryErr

\* C2: after a successful CollectHistoricalData the summary row of every date
\* equals the aggregate of all minute rows stored for that symbol and date
\* (open of the earliest, close of the latest, maximum high, minimum low,
\* summed volume).  Stated for a process running in Eastern time, where the
\* row's date key is the exchange date.
C2_SummaryCoversAllStoredBars ==
    (Collected /\ localOffset = ETOffset) =>
        \A r \in dailySummary :
            LET S == StoredOn(r.symbol, r.date)
            IN  /\ S # {}
                /\ r.open = Earliest(S).open
                /\ r.close = Latest(S).close
                /\ r.high = MaxHigh(S)
                /\ r.low = MinLow(S)
                /\ r.volume = SumVolume(S)

\* C4: a CollectHistoricalData call whose first upstream request fails, so
\* that no request of the call succeeds, returns an error to its caller.
C4_UpstreamFailureIsReturned ==
    (last.op = "CollectHistoricalData" /\ last.failure.batch = 1) => last.err

\* The other half of C4 holds: such a call leaves both tables as they were.
UpstreamFailureLeavesStore ==
    [][(last'.op = "CollectHistoricalData" /\ last'.failure.batch = 1 /\ now' = now)
       => (minuteData' = minuteData /\ dailySummary' = dailySummary)]_vars

----------------------------------------------------------------------------
(* The planner under every age of the latest stored bar *)

\* Oldest latest-bar age drawn, in hours; the youngest lies 30 hours ahead of
\* the clock.
MaxAge == 150
MaxSkew == 30

Ages == (0 - MaxSkew)..MaxAge

\* Instants of a collection: Friday 16:00 and Saturday 15:00, Eastern time.
PlanClock == {AtET(5, 16), AtET(6, 15)}

\* Day counts the callers ask for: the CLI flag (any integer), the scheduler's
\* 1, the sync handler's 30.
PlanRequests == {0 - 1, 0, 1, 30}

\* A row stored by an earlier collection.
SeedRow(t) == MinuteRow(Bar("TSLA", t, 100000, 100500, 99500, 100200, 800))

\* A database left by earlier runs: empty, or holding one bar of the symbol.
InitPlan ==
    /\ localOffset \in LocalOffsets
    /\ now \in PlanClock
    /\ \/ minuteData = {}
       \/ \E age \in Ages : minuteData = {SeedRow(now - age)}
    /\ dailySummary = {}
    /\ lastWrite = << >>
    /\ last = [op |-> "none"]
    /\ sample = NoSample
    /\ verdict = "pending"
    /\ SysIdle

\* A collection that meets no fault.
CollectFetchedNoFault(symbol, days, bars) ==
    \E order \in Orders(bars) :
        CollectHistoricalData(symbol, days, FALSE, NoFailure, NoFault, order, NoFault)

CollectPlannedNoFault(symbol, days, planned) ==
    CollectFetchedNoFault(symbol, days, GetMinuteData(symbol, planned, now, NoFailure).bars)

NextPlan ==
    /\ \E days \in PlanRequests :
          CollectPlannedNoFault("TSLA", days,
                                PlanDays(GetLatestTimestamp(minuteData, "TSLA"), now, days,
                                         localOffset))
    /\ UNCHANGED sysVars

SpecPlan == InitPlan /\ [][NextPlan]_vars

\* The latest stored timestamp the call finds, and its age in hours.
PriorLatest == GetLatestTimestamp(minuteData, last'.symbol)
PriorAge == now - PriorLatest
CollectStep == last'.op = "CollectHistoricalData" /\ last'.stage # "latest"

\* The requests GetMinuteData issues for days (none for days <= 0).
RequestsFor(days) ==
    IF days <= 0 THEN 0 ELSE (days + maxDaysPerRequest - 1) \div maxDaysPerRequest

\* C13: with no bar stored for the symbol, CollectHistoricalData fetches the
\* days it was called with, unadjusted, also for 0 or a negative count (for
\* which no request is issued).
C13_NoPriorDataFetchesRequested ==
    [][(CollectStep /\ PriorLatest = ZeroTime) =>
          /\ last'.days = last'.requestedDays
          /\ Len(last'.requests) = RequestsFor(last'.requestedDays)]_vars

\* The call on the empty store asked for 0 days and issued no request.
C13_Witness ==
    /\ last.op = "CollectHistoricalData"
    /\ last.requestedDays = 0
    /\ last.days = 0
    /\ last.requests = << >>
    /\ minuteData = {}

\* C14 as stated: with prior data of a non-negative age, the planner's day
\* count (which the call fetches) is ceil(age in hours / 24) + 1.
C14_DaysSinceLatest_Ceil ==
    [][(CollectStep /\ PriorLatest # ZeroTime /\ PriorAge >= 0) =>
          last'.days = (PriorAge + HoursPerDay - 1) \div HoursPerDay + 1]_vars

\* C14 (amended): with prior data of a non-negative age, the planner's day
\* count is the number of whole days of the age, plus one:
\* floor(age in hours / 24) + 1.
C14_DaysSinceLatest ==
    [][(CollectStep /\ PriorLatest # ZeroTime /\ PriorAge >= 0) =>
          last'.days = PriorAge \div HoursPerDay + 1]_vars

\* The latest bar was 25 hours old: 2 days were fetched.
C14_Witness ==
    /\ last.op = "CollectHistoricalData"
    /\ last.days = 2
    /\ Len(last.requests) = 1
    /\ last.requests[1][1] = now - 2 * HoursPerDay
    /\ SeedRow(now - 25) \in minuteData

\* C15: when the latest stored timestamp lies earlier on the calendar day of
\* now, the call fetches exactly 1 day.
C15_SameDayFetchesOneDay ==
    [][(/\ CollectStep
        /\ PriorLatest # ZeroTime
        /\ PriorLatest <= now
        /\ DateOf(PriorLatest, localOffset) = DateOf(now, localOffset))
       => last'.days = 1]_vars

\* Called with 30 days at 16:00 over a latest bar of 14:00 the same day (in
\* the process's timezone), the call fetched 1 day.
C15_Witness ==
    /\ last.op = "CollectHistoricalData"
    /\ last.requestedDays = 30
    /\ last.days = 1
    /\ now = AtET(5, 16)
    /\ SeedRow(now - 2) \in minuteData
    /\ DateOf(now - 2, localOffset) = DateOf(now, localOffset)

\* C16: when the latest stored timestamp is N whole days old, N >= 1, the
\* call fetches N + 1 days.
C16_StaleDataFetchesOneMore ==
    [][(/\ CollectStep
        /\ PriorLatest # ZeroTime
        /\ PriorAge >= HoursPerDay
        /\ PriorAge % HoursPerDay = 0)
       => last'.days = PriorAge \div HoursPerDay + 1]_vars

\* The latest bar was 5 days old: 6 days were fetched.
C16_Witness ==
    /\ last.op = "CollectHistoricalData"
    /\ last.days = 6
    /\ SeedRow(now - 5 * HoursPerDay) \in minuteData

\* C17: with prior data the call fetches at least 1 day, whatever the latest
\* stored timestamp is, a timestamp ahead of the clock included.
C17_AtLeastOneDay ==
    [][(CollectStep /\ PriorLatest # ZeroTime) => last'.days >= 1]_vars

\* The latest bar lay 30 hours ahead of the clock (daysSinceLatest = 0): 1 day
\* was fetched.
C17_Witness ==
    /\ last.op = "CollectHistoricalData"
    /\ last.days = 1
    /\ SeedRow(now + MaxSkew) \in minuteData
    /\ daysSinceLatest(now + MaxSkew, now) = 0

----------------------------------------------------------------------------
(* Claims about the orchestrator's early returns and failures *)

CollectEnded(stage) == last'.op = "CollectHistoricalData" /\ last'.stage = stage

\* C18: a CollectHistoricalData call whose fetch returns zero bars returns
\* success and leaves the minute-bar table and the daily-summary table as
\* they were.
C18_EmptyFetchIsNoOp ==
    [][CollectEnded("empty") =>
          /\ ~last'.err
          /\ minuteData' = minuteData
          /\ dailySummary' = dailySummary]_vars

\* A call over a filled database got no bar from its fetch.
C18_Witness ==
    /\ last.op = "CollectHistoricalData"
    /\ last.stage = "empty"
    /\ last.bars = << >>
    /\ Len(last.requests) > 0
    /\ minuteData # {}
    /\ dailySummary # {}

\* C19: when InsertMinuteData fails inside CollectHistoricalData, the call
\* returns an error, UpdateDailySummary is not run, and both tables are left
\* as they were.
C19_InsertFailureIsFatal ==
    [][CollectEnded("insert") =>
          /\ last'.err
          /\ ~last'.summaryErr
          /\ minuteData' = minuteData
          /\ dailySummary' = dailySummary]_vars

\* The insert of fetched bars that the store does not hold failed.
C19_Witness ==
    /\ last.op = "CollectHistoricalData"
    /\ last.stage = "insert"
    /\ Len(last.bars) > 0
    /\ \A i \in 1..Len(last.bars) : MinuteRow(last.bars[i]) \notin minuteData

\* C20: when UpdateDailySummary fails inside CollectHistoricalData, the bars
\* the call committed stay in the store, the summary table is left as it was
\* (no row of the failed set is committed), and the failure is reported as a
\* warning while the bars are kept.
C20_SummaryFailureKeepsBars ==
    [][(last'.op = "CollectHistoricalData" /\ last'.summaryErr) =>
          /\ \A i \in 1..Len(last'.bars) :
                \E r \in minuteData' : MinuteKey(r) = MinuteKey(last'.bars[i])
          /\ minuteData' = ExecInserts(minuteData, last'.bars, Len(last'.bars))
          /\ dailySummary' = dailySummary
          /\ last'.stage = "done"]_vars

\* The summary set of two trading dates failed on an empty summary table
\* after the bars had been committed.
C20_Witness ==
    /\ last.op = "CollectHistoricalData"
    /\ last.summaryErr
    /\ Cardinality(GroupDates(last.bars)) = 2
    /\ dailySummary = {}
    /\ \A i \in 1..Len(last.bars) : MinuteRow(last.bars[i]) \in minuteData

----------------------------------------------------------------------------
(* The orchestrator under symbols in either case *)

\* The -symbol flag of the command line reaches CollectHistoricalData as it
\* was typed.
CaseSymbols == {"TSLA", "tsla"}

CollectTyped ==
    /\ \E symbol \in CaseSymbols, days \in CollectDays :
          CollectPlannedNoFault(symbol, days,
                                PlanDays(GetLatestTimestamp(minuteData, symbol), now, days,
                                         localOffset))
    /\ UNCHANGED sysVars

NextCase == CollectTyped \/ Tick

SpecCase == Init /\ [][NextCase]_vars

\* C28: for every symbol string passed to CollectHistoricalData (upper or
\* lower case) the prior latest timestamp is looked up under, the stored bars
\* carry and the written summary rows carry the same uppercase ticker, so that
\* a second collection for the same input plans from the first one's bars.
C28_OneUppercaseSymbol ==
    [][last'.op = "CollectHistoricalData" =>
          /\ last'.days = PlanDays(GetLatestTimestamp(minuteData, ToUpper(last'.symbol)),
                                   now, last'.requestedDays, localOffset)
          /\ \A i \in 1..Len(last'.bars) : last'.bars[i].symbol = ToUpper(last'.symbol)
          /\ \A r \in dailySummary' \ dailySummary : r.symbol = ToUpper(last'.symbol)]_vars

----------------------------------------------------------------------------
(* The running service: the scheduler's sweep, the sync handler and the    *)
(* watchlist handlers as concurrent goroutines over one database           *)

\* time.Sleep(2 * time.Second), in seconds.
symbolDelay == 2

\* days := 30 of the sync handler; the scheduler's CollectHistoricalData(_, 1).
syncDays == 30
sweepDays == 1

SysSymbols == {"TSLA", "AAPL"}

\* The :symbol parameter of a sync request, as the client typed it.
SyncParams == {"tsla"}

\* INSERT OR IGNORE INTO watched_stocks (symbol, name): last_sync is NULL.
AddWatchedStock(table, symbol) ==
    IF \E r \in table : r.symbol = symbol THEN table
    ELSE table \cup {[symbol |-> symbol, lastSync |-> ZeroTime]}

\* DELETE FROM watched_stocks WHERE symbol = ?
RemoveWatchedStock(table, symbol) == {r \in table : r.symbol # symbol}

\* UPDATE watched_stocks SET last_sync = CURRENT_TIMESTAMP WHERE symbol = ?
UpdateLastSync(table, symbol, clock) ==
    {IF r.symbol = symbol THEN [r EXCEPT !.lastSync = clock] ELSE r : r \in table}

\* SELECT ... WHERE is_active = TRUE ORDER BY added_at DESC: the symbols of
\* the rows (every row is active), in every order the one-second resolution
\* of added_at allows.
GetWatchedStocks(table) ==
    LET syms == {r.symbol : r \in table}
        n == Cardinality(syms)
    IN  {o \in [1..n -> syms] : \A i, j \in 1..n : i # j => o[i] # o[j]}

\* POST /api/stocks: addWatchedStock.  No collection is started.
AddWatched(symbol) ==
    /\ watched' = AddWatchedStock(watched, ToUpper(symbol))
    /\ UNCHANGED <<localOffset, now, minuteData, dailySummary, lastWrite, last, sample,
                   verdict, sweep, sync, fetch>>

\* DELETE /api/stocks/:symbol: removeWatchedStock.  The symbol's bars and
\* summaries stay.
RemoveWatched(symbol) ==
    /\ watched' = RemoveWatchedStock(watched, ToUpper(symbol))
    /\ UNCHANGED <<localOffset, now, minuteData, dailySummary, lastWrite, last, sample,
                   verdict, sweep, sync, fetch>>

\* The Commit of the insert transaction fails.
CommitFault == [stage |-> "commit", index |-> 0]

\* The rest of a CollectHistoricalData call that has planned its days
\* (main.go 253-285), the upstream answering every request.
CollectRest(symbol, days, latestErr, planned, insertFault) ==
    \E order \in Orders(GetMinuteData(symbol, planned, now, NoFailure).bars) :
        Fetch(symbol, days, latestErr, planned, NoFailure, insertFault, order, NoFault)

\* The error such a call returns (TRUE: an error, FALSE: nil).
CollectErr(symbol, latestErr, planned, insertFault) ==
    ReturnedError(latestErr, GetMinuteData(symbol, planned, now, NoFailure),
                  InsertMinuteData(minuteData,
                                   GetMinuteData(symbol, planned, now, NoFailure).bars,
                                   insertFault))

\* ---- the scheduler's goroutine ----

\* The cron entry fires: the watched stocks are read once.
SweepStart ==
    /\ sweep.pc \in {"idle", "done"}
    /\ \E stocks \in GetWatchedStocks(watched) :
          sweep' = [pc |-> IF Len(stocks) = 0 THEN "done" ELSE "loop", stocks |-> stocks,
                    i |-> 1, planned |-> 0, latestErr |-> FALSE, successCount |-> 0,
                    failCount |-> 0, trace |-> << >>]
    /\ UNCHANGED <<localOffset, now, minuteData, dailySummary, lastWrite, last, sample,
                   verdict, watched, sync, fetch>>

\* The loop enters CollectHistoricalData(stock.Symbol, 1): the latest stored
\* timestamp is read and the days are planned.
SweepCollectBegin ==
    /\ sweep.pc = "loop"
    /\ sweep.i <= Len(sweep.stocks)
    /\ \E latestErr \in BOOLEAN :
          sweep' = [sweep EXCEPT
                      !.pc = "collect",
                      !.latestErr = latestErr,
                      !.planned = PlanDays(GetLatestTimestamp(minuteData, sweep.stocks[sweep.i]),
                                           now, sweepDays, localOffset),
                      !.trace = Append(@, [ev |-> "collect", symbol |-> sweep.stocks[sweep.i]])]
    /\ UNCHANGED <<localOffset, now, minuteData, dailySummary, lastWrite, last, sample,
                   verdict, watched, sync, fetch>>

\* The failed symbol ends the sweep.
AfterFailure_Abort(sw) ==
    [sw EXCEPT !.failCount = @ + 1, !.pc = "done",
               !.trace = Append(@, [ev |-> "failed", symbol |-> sw.stocks[sw.i]])]

\* failCount++; continue
AfterFailure(sw) ==
    [sw EXCEPT !.failCount = @ + 1, !.i = @ + 1, !.pc = "loop",
               !.trace = Append(@, [ev |-> "failed", symbol |-> sw.stocks[sw.i]])]

\* UpdateLastSync; successCount++; then the delay
AfterSuccess(sw) ==
    [sw EXCEPT !.successCount = @ + 1, !.pc = "sleep",
               !.trace = Append(@, [ev |-> "updated", symbol |-> sw.stocks[sw.i]])]

\* The call returns to the loop.
SweepCollectEnd ==
    /\ sweep.pc = "collect"
    /\ CollectRest(sweep.stocks[sweep.i], sweepDays, sweep.latestErr, sweep.planned, NoFault)
    /\ sweep' = IF CollectErr(sweep.stocks[sweep.i], sweep.latestErr, sweep.planned, NoFault)
                THEN AfterFailure(sweep) ELSE AfterSuccess(sweep)
    /\ watched' = IF CollectErr(sweep.stocks[sweep.i], sweep.latestErr, sweep.planned, NoFault)
                  THEN watched
                  ELSE UpdateLastSync(watched, sweep.stocks[sweep.i], now)
    /\ UNCHANGED <<sync, fetch>>

\* The delay after a successful symbol has passed.
SweepSleep ==
    /\ sweep.pc = "sleep"
    /\ sweep' = [sweep EXCEPT !.pc = "loop", !.i = @ + 1,
                              !.trace = Append(@, [ev |-> "sleep", seconds |-> symbolDelay])]
    /\ UNCHANGED <<localOffset, now, minuteData, dailySummary, lastWrite, last, sample,
                   verdict, watched, sync, fetch>>

\* The range loop is exhausted: the counts are logged.
SweepEnd ==
    /\ sweep.pc = "loop"
    /\ sweep.i > Len(sweep.stocks)
    /\ sweep' = [sweep EXCEPT !.pc = "done"]
    /\ UNCHANGED <<localOffset, now, minuteData, dailySummary, lastWrite, last, sample,
                   verdict, watched, sync, fetch>>

SweepStep == SweepCollectBegin \/ SweepCollectEnd \/ SweepSleep \/ SweepEnd

\* ---- the goroutine of POST /api/stocks/:symbol/sync ----

\* Lines 170-222: the watchlist is checked and the days are computed from the
\* latest stored timestamp (an error of the query is dropped: the zero time).
SyncRequest(param) ==
    /\ sync.pc \in {"idle", "done"}
    /\ sync' = IF \E r \in watched : r.symbol = ToUpper(param)
               THEN [pc |-> "planned", symbol |-> ToUpper(param),
                     days |-> PlanDays(GetLatestTimestamp(minuteData, ToUpper(param)), now,
                                       syncDays, localOffset),
                     planned |-> 0]
               ELSE [pc |-> "done", symbol |-> ToUpper(param), status |-> 404]
    /\ UNCHANGED <<localOffset, now, minuteData, dailySummary, lastWrite, last, sample,
                   verdict, watched, sweep, fetch>>

\* Line 224 enters CollectHistoricalData(symbol, days): the latest stored
\* timestamp is read again and the days are planned again.
SyncCollectBegin ==
    /\ sync.pc = "planned"
    /\ sync' = [sync EXCEPT
                   !.pc = "collect",
                   !.planned = PlanDays(GetLatestTimestamp(minuteData, sync.symbol), now,
                                        sync.days, localOffset)]
    /\ UNCHANGED <<localOffset, now, minuteData, dailySummary, lastWrite, last, sample,
                   verdict, watched, sweep, fetch>>

\* The response of a sync whose collection returned nil: RecordsAdded: days,
\* LatestDate: the latest stored timestamp read after the collection.
SyncResponse(sy, table) ==
    [pc |-> "done", symbol |-> sy.symbol, status |-> 200, recordsAdded |-> sy.days,
     latestDate |-> GetLatestTimestamp(table, sy.symbol)]

\* The call returns: an error is answered with 500, success with
\* UpdateLastSync and the response.
SyncCollectEnd ==
    /\ sync.pc = "collect"
    /\ \E insertFault \in {NoFault, CommitFault} :
          /\ CollectRest(sync.symbol, sync.days, FALSE, sync.planned, insertFault)
          /\ sync' = IF CollectErr(sync.symbol, FALSE, sync.planned, insertFault)
                     THEN [pc |-> "done", symbol |-> sync.symbol, status |-> 500]
                     ELSE SyncResponse(sync, minuteData')
          /\ watched' = IF CollectErr(sync.symbol, FALSE, sync.planned, insertFault)
                        THEN watched
                        ELSE UpdateLastSync(watched, sync.symbol, now)
    /\ UNCHANGED <<sweep, fetch>>

SyncStep == SyncCollectBegin \/ SyncCollectEnd

\* ---- the service ----

\* Saturday 15:00 Eastern time.
SysClock == AtET(6, 15)

\* The container's timezone; a database that holds one bar of TSLA five days
\* old and nothing of AAPL; nothing watched, no goroutine running.
InitSystem ==
    /\ localOffset = 8
    /\ now = SysClock
    /\ minuteData = {SeedRow(SysClock - 5 * HoursPerDay)}
    /\ dailySummary = {}
    /\ lastWrite = << >>
    /\ last = [op |-> "none"]
    /\ sample = NoSample
    /\ verdict = "pending"
    /\ SysIdle

NextSystem ==
    \/ \E symbol \in SysSymbols : AddWatched(symbol)
    \/ \E symbol \in SysSymbols : RemoveWatched(symbol)
    \/ SweepStart
    \/ SweepStep
    \/ \E param \in SyncParams : SyncRequest(param)
    \/ SyncStep

SpecSystem == InitSystem /\ [][NextSystem]_vars

\* The service while no sync is requested.
NextSweep ==
    \/ \E symbol \in SysSymbols : AddWatched(symbol)
    \/ \E symbol \in SysSymbols : RemoveWatched(symbol)
    \/ SweepStart
    \/ SweepStep

SpecSweep == InitSystem /\ [][NextSweep]_vars

\* The steps of the loop outside the collection call.
SweepLoopStep == SweepCollectBegin \/ SweepSleep \/ SweepEnd

\* The scheduler's goroutine is scheduled and its sleep ends: weak fairness
\* of the loop's steps.  The collection call it is in returns (C26; the
\* database calls return): SweepCollectEnd is enabled exactly while
\* sweep.pc = "collect" and every step of it leaves that position, so its weak
\* fairness is the condition that the sweep is again and again outside the
\* call.
FairSweep ==
    SpecSweep /\ WF_vars(SweepLoopStep) /\ []<>(sweep.pc # "collect")

----------------------------------------------------------------------------
(* Claims about the running service *)

\* C21: across collections, sweeps, manual syncs and watchlist add/remove
\* operations a (symbol, timestamp) key once present in the minute-bar store
\* stays present.
C21_KeysStay ==
    [][\A r \in minuteData : \E q \in minuteData' : MinuteKey(q) = MinuteKey(r)]_vars

\* TSLA was synced (its seed bar joined by the four fetched ones), swept, and
\* then removed from the watchlist: its five bars are still stored.
C21_Witness ==
    /\ sync.pc = "done"
    /\ sync.status = 200
    /\ sweep.pc = "done"
    /\ sweep.successCount > 0
    /\ \A r \in watched : r.symbol # "TSLA"
    /\ Cardinality({r \in minuteData : r.symbol = "TSLA"}) = 5

\* C22: the response of a successful manual sync carries in recordsAdded the
\* number of bars its collection fetched and in latestDate the maximum stored
\* timestamp of the symbol.
C22_SyncReportsFetched ==
    [][(sync.pc = "collect" /\ sync'.pc = "done" /\ sync'.status = 200) =>
          /\ sync'.recordsAdded = Len(last'.bars)
          /\ \A r \in minuteData' : r.symbol = sync.symbol => r.timestamp <= sync'.latestDate
          /\ \E r \in minuteData' : r.symbol = sync.symbol /\ r.timestamp = sync'.latestDate]_vars

\* C23: the sweep and a manual sync never run CollectHistoricalData for the
\* same symbol at the same time.
C23_NoOverlappingCollections ==
    ~(/\ sweep.pc = "collect"
      /\ sync.pc = "collect"
      /\ sweep.stocks[sweep.i] = sync.symbol)

\* C25: in a sweep the collection of every symbol after the first is preceded
\* by the 2-second delay, whether the symbol before it succeeded or failed.
C25_DelayBetweenSymbols ==
    sweep.pc # "idle" =>
        \A k \in 2..Len(sweep.trace) :
            sweep.trace[k].ev = "collect" =>
                (sweep.trace[k - 1].ev = "sleep" /\ sweep.trace[k - 1].seconds = 2)

\* The latest stored timestamp of symbol before the step.
PriorOf(symbol) == GetLatestTimestamp(minuteData, symbol)

\* C29: with prior data for the symbol the days a CollectHistoricalData call
\* plans are the same for every requestedDays, and in a manual sync they equal
\* the days the handler computed before the call.
C29_PlanIgnoresRequestedDays ==
    [][/\ (sweep.pc = "loop" /\ sweep'.pc = "collect"
           /\ PriorOf(sweep.stocks[sweep.i]) # ZeroTime) =>
              \A d \in PlanRequests :
                  sweep'.planned = PlanDays(PriorOf(sweep.stocks[sweep.i]), now, d,
                                            localOffset)
       /\ (sync.pc = "planned" /\ sync'.pc = "collect" /\ PriorOf(sync.symbol) # ZeroTime) =>
              /\ \A d \in PlanRequests :
                    sync'.planned = PlanDays(PriorOf(sync.symbol), now, d, localOffset)
              /\ sync'.planned = sync.days]_vars

\* The symbols the sweep has entered a collection for, in order.
Attempted == SelectSeq(sweep.trace, LAMBDA e : e.ev = "collect")

\* C30: a sweep attempts a collection for every symbol of its snapshot of the
\* watchlist exactly once, in order, also after a failed symbol; it ends, with
\* successCount + failCount equal to the number of symbols; and it updates
\* last_sync only for a symbol whose collection has just returned success.
C30_SweepAttemptsEverySymbol ==
    /\ [](sweep.pc = "done" =>
            /\ Len(Attempted) = Len(sweep.stocks)
            /\ \A k \in 1..Len(Attempted) : Attempted[k].symbol = sweep.stocks[k]
            /\ sweep.successCount + sweep.failCount = Len(sweep.stocks))
    /\ [][(sweep' # sweep /\ watched' # watched) =>
            /\ sweep.pc = "collect"
            /\ ~last'.err
            /\ last'.symbol = sweep.stocks[sweep.i]
            /\ \A r \in watched' \ watched : r.symbol = sweep.stocks[sweep.i]]_vars
    /\ (sweep.pc \in {"loop", "collect", "sleep"}) ~> (sweep.pc = "done")

\* A sweep over two symbols ended: the first failed, the second succeeded and
\* only it carries a last_sync.
C30_Witness ==
    /\ sweep.pc = "done"
    /\ Len(sweep.stocks) = 2
    /\ sweep.trace[2].ev = "failed"
    /\ sweep.successCount = 1
    /\ sweep.failCount = 1
    /\ \A r \in watched : r.lastSync # ZeroTime <=> r.symbol = sweep.stocks[2]
    /\ Cardinality(watched) = 2

====
